---- MODULE Spec2Model ----
(***************************************************************************)
(* Model of the DORA experiment driver, dora_exp_pipeline/dora_exp.py:     *)
(* one call of start(config_file, out_dir, log_file, seed) in one process, *)
(* statement by statement, with every call into a collaborator (config     *)
(* parsing, mkdir, loader lookup, load, feature extraction, normalization, *)
(* algorithm lookup, algorithm run) an atomic step that either returns or  *)
(* raises.  An uncaught exception ends the process (exit status 1, as the  *)
(* interpreter does), sys.exit(1) ends it with status 1, falling off the   *)
(* end of start ends it with status 0.                                     *)
(***************************************************************************)
EXTENDS Naturals, Sequences, FiniteSets

VARIABLES
    args,          \* the arguments of start and whether config_file exists
    fs0,           \* history: directories that existed when start was called
    fs,            \* directories that exist on disk
    created,       \* directories os.mkdir has created in this run
    pc,            \* position of the run inside start
    logger,        \* local logger of start
    config,        \* local config of start
    registry,      \* outlier_detection's process-wide name -> algorithm mapping
    regIdx,        \* register_od_alg calls of register_od_algs completed
    data_loader,   \* local data_loader of start
    dtf_dict,      \* local dtf_dict of start
    dts_dict,      \* local dts_dict of start
    dtf_features,  \* local dtf_features of start
    dts_features,  \* local dts_features of start
    algIdx,        \* items of config.outlier_detection the loop has taken
    outlier_alg,   \* local outlier_alg of start
    invocations,   \* history: the argument lists of the outlier_alg.run calls
    trace,         \* history: the collaborator calls made, in order
    error,         \* the exception that ended the run, if any
    exitCode,      \* <<status>> once the process has exited, <<>> while it runs
    failedAt       \* history: position of the algorithm whose run raised

vars == <<args, fs0, fs, created, pc, logger, config, registry, regIdx,
          data_loader, dtf_dict, dts_dict, dtf_features, dts_features,
          algIdx, outlier_alg, invocations, trace, error, exitCode, failedAt>>

(***************************************************************************)
(* Bounds and input domains.                                               *)
(***************************************************************************)
MaxAlgs == 2

None == "None"

DefaultSeed == 1234

Seeds == {DefaultSeed, 42}

OutDirArgs == {None, "cli_out"}

LogFileArgs == {None, "dora.log"}

ConfigOutDir == "cfg_out"

Dirs == {"cli_out", ConfigOutDir}

ParamVals == {"params_a", "params_b"}

(***************************************************************************)
(* The algorithm classes and the registry.                                 *)
(***************************************************************************)
\* The classes register_od_algs instantiates and registers, in order.
register_od_algs_dup ==
    <<"DEMUDOutlierDetection", "DEMUDOutlierDetection",
      "PCAOutlierDetection", "LocalRXOutlierDetection",
      "RXOutlierDetection", "RandomOutlierDetection",
      "NegativeSamplingOutlierDetection">>

register_od_algs ==
    <<"DEMUDOutlierDetection", "IForestOutlierDetection",
      "PCAOutlierDetection", "LocalRXOutlierDetection",
      "RXOutlierDetection", "RandomOutlierDetection",
      "NegativeSamplingOutlierDetection">>

\* The name each algorithm class registers under.
AlgName(impl) ==
    CASE impl = "DEMUDOutlierDetection" -> "demud"
      [] impl = "IForestOutlierDetection" -> "iforest"
      [] impl = "PCAOutlierDetection" -> "pca"
      [] impl = "LocalRXOutlierDetection" -> "lrx"
      [] impl = "RXOutlierDetection" -> "rx"
      [] impl = "RandomOutlierDetection" -> "random"
      [] impl = "NegativeSamplingOutlierDetection" -> "negative_sampling"
      [] OTHER -> None

EmptyRegistry == [n \in {} |-> None]

Bind(reg, name, impl) ==
    [n \in DOMAIN reg \cup {name} |-> IF n = name THEN impl ELSE reg[n]]

\* register(name, implementation): adds a binding, fails on a bound name.
register_od_alg(reg, impl) ==
    IF AlgName(impl) \in DOMAIN reg
    THEN [registry |-> reg, err |-> "DuplicateNameError"]
    ELSE [registry |-> Bind(reg, AlgName(impl), impl), err |-> None]

\* resolve(name): the implementation bound to name, fails on an absent name.
get_alg_by_name(reg, name) ==
    IF name \in DOMAIN reg
    THEN [alg |-> reg[name], err |-> None]
    ELSE [alg |-> None, err |-> "NotFoundError"]

\* The data loaders the loader registry knows.
LoaderNames == {"image"}

get_data_loader_by_name(name) ==
    IF name \in LoaderNames
    THEN [loader |-> name, err |-> None]
    ELSE [loader |-> None, err |-> "NotFoundError"]

(***************************************************************************)
(* Configurations.                                                         *)
(***************************************************************************)
ConfigAlgNames == {"random", "demud", "pca", "nonexistent"}

ConfigLoaderNames == {"image", "nonexistent_loader"}

OdEntries == [name : ConfigAlgNames, params : ParamVals]

\* outlier_detection is a mapping: its keys are distinct, its items ordered.
OdMappings ==
    {od \in UNION {[1..n -> OdEntries] : n \in 0..MaxAlgs} :
        \A i, j \in DOMAIN od : od[i].name = od[j].name => i = j}

NoConfig ==
    [data_loader |-> [name |-> None, params |-> None],
     data_to_fit |-> None, data_to_score |-> None, features |-> None,
     zscore_normalization |-> FALSE, outlier_detection |-> <<>>,
     out_dir |-> None, results |-> None, top_n |-> None]

\* The record DoraConfig builds from a configuration file.
DoraConfig(loaderName, zscore, od) ==
    [data_loader |-> [name |-> loaderName, params |-> "loader_params"],
     data_to_fit |-> "fit_path", data_to_score |-> "score_path",
     features |-> "recipe", zscore_normalization |-> zscore,
     outlier_detection |-> od, out_dir |-> ConfigOutDir,
     results |-> "results_cfg", top_n |-> "top_n_cfg"]

(***************************************************************************)
(* Datasets and feature matrices, by what they were made from.             *)
(***************************************************************************)
NoDict == [path |-> None, params |-> None, id |-> [ids_of |-> None]]

NoFeatures == [data |-> None, recipe |-> None, normalized |-> FALSE, stats |-> None]

\* data_loader.load(path, **params): a dataset with its own id sequence.
load(path, params) == [path |-> path, params |-> params, id |-> [ids_of |-> path]]

extract_feature(dict, recipe) ==
    [data |-> dict.path, recipe |-> recipe, normalized |-> FALSE, stats |-> None]

\* Both matrices standardized with the statistics of the fit matrix.
z_score_normalize(fit, score) ==
    <<[fit EXCEPT !.normalized = TRUE, !.stats = fit.data],
      [score EXCEPT !.normalized = TRUE, !.stats = fit.data]>>

Event(op, arg) == [op |-> op, arg |-> arg]

Outcomes == {"ok", "raise"}

(***************************************************************************)
(* The run.                                                                *)
(***************************************************************************)
Init ==
    /\ args \in [exists : BOOLEAN, out_dir : OutDirArgs,
                 log_file : LogFileArgs, seed : Seeds]
    /\ fs0 \in SUBSET Dirs
    /\ fs = fs0
    /\ created = {}
    /\ pc = "start"
    /\ logger = None
    /\ config = NoConfig
    /\ registry = EmptyRegistry
    /\ regIdx = 0
    /\ data_loader = None
    /\ dtf_dict = NoDict
    /\ dts_dict = NoDict
    /\ dtf_features = NoFeatures
    /\ dts_features = NoFeatures
    /\ algIdx = 0
    /\ outlier_alg = None
    /\ invocations = <<>>
    /\ trace = <<>>
    /\ error = None
    /\ exitCode = <<>>
    /\ failedAt = 0

\* An exception nothing catches: it leaves start and ends the process.
Raise(e) ==
    /\ pc' = "raised"
    /\ error' = e
    /\ exitCode' = <<1>>

Goto(p) ==
    /\ pc' = p
    /\ UNCHANGED <<error, exitCode>>

\* if not os.path.exists(config_file): print(...); sys.exit(1)
CheckConfigFile_nocheck ==
    /\ pc = "start"
    /\ Goto("logger")
    /\ UNCHANGED <<args, fs0, fs, created, logger, config, registry, regIdx,
                   data_loader, dtf_dict, dts_dict, dtf_features,
                   dts_features, algIdx, outlier_alg, invocations, trace,
                   failedAt>>

CheckConfigFile ==
    /\ pc = "start"
    /\ IF ~args.exists
       THEN /\ pc' = "exited"
            /\ exitCode' = <<1>>
            /\ UNCHANGED error
       ELSE Goto("logger")
    /\ UNCHANGED <<args, fs0, fs, created, logger, config, registry, regIdx,
                   data_loader, dtf_dict, dts_dict, dtf_features,
                   dts_features, algIdx, outlier_alg, invocations, trace,
                   failedAt>>

\* logger = None; if log_file is not None: logger = LogUtil(...)
MakeLogger ==
    /\ pc = "logger"
    /\ logger' = IF args.log_file # None THEN "LogUtil" ELSE None
    /\ Goto("config")
    /\ UNCHANGED <<args, fs0, fs, created, config, registry, regIdx, data_loader,
                   dtf_dict, dts_dict, dtf_features, dts_features, algIdx,
                   outlier_alg, invocations, trace, failedAt>>

\* config = DoraConfig(config_file, logger)
LoadConfig ==
    /\ pc = "config"
    /\ trace' = Append(trace, Event("DoraConfig", "config_file"))
    /\ \E outcome \in Outcomes :
          IF outcome = "raise"
          THEN /\ Raise("ConfigurationError")
               /\ UNCHANGED config
          ELSE /\ \E ln \in ConfigLoaderNames, z \in BOOLEAN, od \in OdMappings :
                     config' = DoraConfig(ln, z, od)
               /\ Goto("override")
    /\ UNCHANGED <<args, fs0, fs, created, logger, registry, regIdx, data_loader,
                   dtf_dict, dts_dict, dtf_features, dts_features, algIdx,
                   outlier_alg, invocations, failedAt>>

\* if out_dir is not None: config.out_dir = out_dir
OverrideOutDir_ignored ==
    /\ pc = "override"
    /\ Goto("mkdir")
    /\ UNCHANGED <<args, fs0, fs, created, logger, config, registry, regIdx,
                   data_loader, dtf_dict, dts_dict, dtf_features,
                   dts_features, algIdx, outlier_alg, invocations, trace,
                   failedAt>>

OverrideOutDir ==
    /\ pc = "override"
    /\ config' = IF args.out_dir # None
                 THEN [config EXCEPT !.out_dir = args.out_dir]
                 ELSE config
    /\ Goto("mkdir")
    /\ UNCHANGED <<args, fs0, fs, created, logger, registry, regIdx, data_loader,
                   dtf_dict, dts_dict, dtf_features, dts_features, algIdx,
                   outlier_alg, invocations, trace, failedAt>>

\* if not os.path.exists(config.out_dir): os.mkdir(config.out_dir)
MakeOutDir ==
    /\ pc = "mkdir"
    /\ IF config.out_dir \in fs
       THEN /\ Goto("register")
            /\ UNCHANGED <<fs, created, trace>>
       ELSE /\ trace' = Append(trace, Event("mkdir", config.out_dir))
            /\ \E outcome \in Outcomes :
                  IF outcome = "raise"
                  THEN /\ Raise("OSError")
                       /\ UNCHANGED <<fs, created>>
                  ELSE /\ fs' = fs \cup {config.out_dir}
                       /\ created' = created \cup {config.out_dir}
                       /\ Goto("register")
    /\ UNCHANGED <<args, fs0, logger, config, registry, regIdx, data_loader,
                   dtf_dict, dts_dict, dtf_features, dts_features, algIdx,
                   outlier_alg, invocations, failedAt>>

\* register_od_algs(): one register_od_alg call of its body per step.
RegisterOdAlg ==
    /\ pc = "register"
    /\ LET impl == register_od_algs[regIdx + 1]
           r == register_od_alg(registry, impl)
       IN  /\ trace' = Append(trace, Event("register_od_alg", impl))
           /\ registry' = r.registry
           /\ IF r.err # None
              THEN /\ Raise(r.err)
                   /\ UNCHANGED regIdx
              ELSE /\ regIdx' = regIdx + 1
                   /\ Goto(IF regIdx + 1 = Len(register_od_algs)
                           THEN "get_data_loader" ELSE "register")
    /\ UNCHANGED <<args, fs0, fs, created, logger, config, data_loader, dtf_dict,
                   dts_dict, dtf_features, dts_features, algIdx, outlier_alg,
                   invocations, failedAt>>

\* data_loader = get_data_loader_by_name(config.data_loader['name'])
GetDataLoader_default ==
    /\ pc = "get_data_loader"
    /\ trace' = Append(trace, Event("get_data_loader_by_name",
                                    config.data_loader.name))
    /\ data_loader' = "image"
    /\ Goto("load_dtf")
    /\ UNCHANGED <<args, fs0, fs, created, logger, config, registry, regIdx,
                   dtf_dict, dts_dict, dtf_features, dts_features, algIdx,
                   outlier_alg, invocations, failedAt>>

GetDataLoader ==
    /\ pc = "get_data_loader"
    /\ LET r == get_data_loader_by_name(config.data_loader.name)
       IN  /\ trace' = Append(trace, Event("get_data_loader_by_name",
                                           config.data_loader.name))
           /\ IF r.err # None
              THEN /\ Raise(r.err)
                   /\ UNCHANGED data_loader
              ELSE /\ data_loader' = r.loader
                   /\ Goto("load_dtf")
    /\ UNCHANGED <<args, fs0, fs, created, logger, config, registry, regIdx,
                   dtf_dict, dts_dict, dtf_features, dts_features, algIdx,
                   outlier_alg, invocations, failedAt>>

\* dtf_dict = data_loader.load(config.data_to_fit, **config.data_loader['params'])
LoadDataToFit_skip ==
    /\ pc = "load_dtf"
    /\ trace' = Append(trace, Event("load", config.data_to_fit))
    /\ dtf_dict' = load(config.data_to_fit, config.data_loader.params)
    /\ Goto("extract_dtf")
    /\ UNCHANGED <<args, fs0, fs, created, logger, config, registry, regIdx,
                   data_loader, dts_dict, dtf_features, dts_features, algIdx,
                   outlier_alg, invocations, failedAt>>

LoadDataToFit ==
    /\ pc = "load_dtf"
    /\ trace' = Append(trace, Event("load", config.data_to_fit))
    /\ \E outcome \in Outcomes :
          IF outcome = "raise"
          THEN /\ Raise("DataLoadError")
               /\ UNCHANGED dtf_dict
          ELSE /\ dtf_dict' = load(config.data_to_fit, config.data_loader.params)
               /\ Goto("load_dts")
    /\ UNCHANGED <<args, fs0, fs, created, logger, config, registry, regIdx,
                   data_loader, dts_dict, dtf_features, dts_features, algIdx,
                   outlier_alg, invocations, failedAt>>

\* dts_dict = data_loader.load(config.data_to_score, **config.data_loader['params'])
LoadDataToScore ==
    /\ pc = "load_dts"
    /\ trace' = Append(trace, Event("load", config.data_to_score))
    /\ \E outcome \in Outcomes :
          IF outcome = "raise"
          THEN /\ Raise("DataLoadError")
               /\ UNCHANGED dts_dict
          ELSE /\ dts_dict' = load(config.data_to_score, config.data_loader.params)
               /\ Goto("extract_dtf")
    /\ UNCHANGED <<args, fs0, fs, created, logger, config, registry, regIdx,
                   data_loader, dtf_dict, dtf_features, dts_features, algIdx,
                   outlier_alg, invocations, failedAt>>

\* dtf_features = extract_feature(dtf_dict, config.features)
ExtractFit ==
    /\ pc = "extract_dtf"
    /\ trace' = Append(trace, Event("extract_feature", dtf_dict.path))
    /\ \E outcome \in Outcomes :
          IF outcome = "raise"
          THEN /\ Raise("FeatureExtractionError")
               /\ UNCHANGED dtf_features
          ELSE /\ dtf_features' = extract_feature(dtf_dict, config.features)
               /\ Goto("extract_dts")
    /\ UNCHANGED <<args, fs0, fs, created, logger, config, registry, regIdx,
                   data_loader, dtf_dict, dts_dict, dts_features, algIdx,
                   outlier_alg, invocations, failedAt>>

\* dts_features = extract_feature(dts_dict, config.features)
ExtractScore ==
    /\ pc = "extract_dts"
    /\ trace' = Append(trace, Event("extract_feature", dts_dict.path))
    /\ \E outcome \in Outcomes :
          IF outcome = "raise"
          THEN /\ Raise("FeatureExtractionError")
               /\ UNCHANGED dts_features
          ELSE /\ dts_features' = extract_feature(dts_dict, config.features)
               /\ Goto("zscore")
    /\ UNCHANGED <<args, fs0, fs, created, logger, config, registry, regIdx,
                   data_loader, dtf_dict, dts_dict, dtf_features, algIdx,
                   outlier_alg, invocations, failedAt>>

\* if config.zscore_normalization:
\*     dtf_features, dts_features = z_score_normalize(dtf_features, dts_features)
ZScore ==
    /\ pc = "zscore"
    /\ IF config.zscore_normalization
       THEN /\ trace' = Append(trace, Event("z_score_normalize", "features"))
            /\ \E outcome \in Outcomes :
                  IF outcome = "raise"
                  THEN /\ Raise("NormalizationError")
                       /\ UNCHANGED <<dtf_features, dts_features>>
                  ELSE /\ dtf_features' =
                              z_score_normalize(dtf_features, dts_features)[1]
                       /\ dts_features' =
                              z_score_normalize(dtf_features, dts_features)[2]
                       /\ Goto("loop")
       ELSE /\ Goto("loop")
            /\ UNCHANGED <<dtf_features, dts_features, trace>>
    /\ UNCHANGED <<args, fs0, fs, created, logger, config, registry, regIdx,
                   data_loader, dtf_dict, dts_dict, algIdx, outlier_alg,
                   invocations, failedAt>>

\* The argument list of outlier_alg.run(dtf_features, dts_features,
\* dts_dict['id'], config.out_dir, config.results, config.top_n, logger,
\* seed, **alg_params).
RunArgs(ids) ==
    [alg |-> outlier_alg, fit |-> dtf_features, score |-> dts_features,
     ids |-> ids, out_dir |-> config.out_dir, results |-> config.results,
     top_n |-> config.top_n, logger |-> logger, seed |-> args.seed,
     params |-> config.outlier_detection[algIdx].params]

Remove(reg, name) == [n \in DOMAIN reg \ {name} |-> reg[n]]

\* for alg_name, alg_params in config.outlier_detection.items():
\*     outlier_alg = get_alg_by_name(alg_name)
GetAlg_skip_unknown ==
    /\ pc = "loop"
    /\ algIdx < Len(config.outlier_detection)
    /\ LET name == config.outlier_detection[algIdx + 1].name
           r == get_alg_by_name(registry, name)
       IN  /\ trace' = Append(trace, Event("get_alg_by_name", name))
           /\ algIdx' = algIdx + 1
           /\ IF r.err # None
              THEN /\ Goto("loop")
                   /\ UNCHANGED outlier_alg
              ELSE /\ outlier_alg' = r.alg
                   /\ Goto("run")
    /\ UNCHANGED <<args, fs0, fs, created, logger, config, registry, regIdx,
                   data_loader, dtf_dict, dts_dict, dtf_features,
                   dts_features, invocations, failedAt>>

GetAlg_reversed ==
    /\ pc = "loop"
    /\ algIdx < Len(config.outlier_detection)
    /\ LET name == config.outlier_detection[
                       Len(config.outlier_detection) - algIdx].name
           r == get_alg_by_name(registry, name)
       IN  /\ trace' = Append(trace, Event("get_alg_by_name", name))
           /\ algIdx' = algIdx + 1
           /\ IF r.err # None
              THEN /\ Raise(r.err)
                   /\ UNCHANGED outlier_alg
              ELSE /\ outlier_alg' = r.alg
                   /\ Goto("run")
    /\ UNCHANGED <<args, fs0, fs, created, logger, config, registry, regIdx,
                   data_loader, dtf_dict, dts_dict, dtf_features,
                   dts_features, invocations, failedAt>>

GetAlg_pop ==
    /\ pc = "loop"
    /\ algIdx < Len(config.outlier_detection)
    /\ LET name == config.outlier_detection[algIdx + 1].name
           r == get_alg_by_name(registry, name)
       IN  /\ trace' = Append(trace, Event("get_alg_by_name", name))
           /\ algIdx' = algIdx + 1
           /\ IF r.err # None
              THEN /\ Raise(r.err)
                   /\ UNCHANGED <<outlier_alg, registry>>
              ELSE /\ outlier_alg' = r.alg
                   /\ registry' = Remove(registry, name)
                   /\ Goto("run")
    /\ UNCHANGED <<args, fs0, fs, created, logger, config, regIdx,
                   data_loader, dtf_dict, dts_dict, dtf_features,
                   dts_features, invocations, failedAt>>

GetAlg ==
    /\ pc = "loop"
    /\ algIdx < Len(config.outlier_detection)
    /\ LET name == config.outlier_detection[algIdx + 1].name
           r == get_alg_by_name(registry, name)
       IN  /\ trace' = Append(trace, Event("get_alg_by_name", name))
           /\ algIdx' = algIdx + 1
           /\ IF r.err # None
              THEN /\ Raise(r.err)
                   /\ UNCHANGED outlier_alg
              ELSE /\ outlier_alg' = r.alg
                   /\ Goto("run")
    /\ UNCHANGED <<args, fs0, fs, created, logger, config, registry, regIdx,
                   data_loader, dtf_dict, dts_dict, dtf_features,
                   dts_features, invocations, failedAt>>

\*     outlier_alg.run(dtf_features, dts_features, dts_dict['id'], ...)
RunAlg_swallow ==
    /\ pc = "run"
    /\ invocations' = Append(invocations, RunArgs(dts_dict.id))
    /\ trace' = Append(trace, Event("run", outlier_alg))
    /\ \E outcome \in Outcomes :
          IF outcome = "raise"
          THEN /\ failedAt' = algIdx
               /\ Goto("loop")
          ELSE /\ Goto("loop")
               /\ UNCHANGED failedAt
    /\ UNCHANGED <<args, fs0, fs, created, logger, config, registry, regIdx,
                   data_loader, dtf_dict, dts_dict, dtf_features,
                   dts_features, algIdx, outlier_alg>>

RunAlg_fit_ids ==
    /\ pc = "run"
    /\ invocations' = Append(invocations, RunArgs(dtf_dict.id))
    /\ trace' = Append(trace, Event("run", outlier_alg))
    /\ \E outcome \in Outcomes :
          IF outcome = "raise"
          THEN /\ failedAt' = algIdx
               /\ Raise("AlgorithmRuntimeError")
          ELSE /\ Goto("loop")
               /\ UNCHANGED failedAt
    /\ UNCHANGED <<args, fs0, fs, created, logger, config, registry, regIdx,
                   data_loader, dtf_dict, dts_dict, dtf_features,
                   dts_features, algIdx, outlier_alg>>

RunAlg ==
    /\ pc = "run"
    /\ invocations' = Append(invocations, RunArgs(dts_dict.id))
    /\ trace' = Append(trace, Event("run", outlier_alg))
    /\ \E outcome \in Outcomes :
          IF outcome = "raise"
          THEN /\ failedAt' = algIdx
               /\ Raise("AlgorithmRuntimeError")
          ELSE /\ Goto("loop")
               /\ UNCHANGED failedAt
    /\ UNCHANGED <<args, fs0, fs, created, logger, config, registry, regIdx,
                   data_loader, dtf_dict, dts_dict, dtf_features,
                   dts_features, algIdx, outlier_alg>>

\* The loop is exhausted: start returns and the process ends normally.
Finish ==
    /\ pc = "loop"
    /\ algIdx = Len(config.outlier_detection)
    /\ pc' = "exited"
    /\ exitCode' = <<0>>
    /\ UNCHANGED <<args, fs0, fs, created, logger, config, registry, regIdx,
                   data_loader, dtf_dict, dts_dict, dtf_features,
                   dts_features, algIdx, outlier_alg, invocations, trace,
                   error, failedAt>>

Next ==
    \/ CheckConfigFile
    \/ MakeLogger
    \/ LoadConfig
    \/ OverrideOutDir
    \/ MakeOutDir
    \/ RegisterOdAlg
    \/ GetDataLoader
    \/ LoadDataToFit
    \/ LoadDataToScore
    \/ ExtractFit
    \/ ExtractScore
    \/ ZScore
    \/ GetAlg
    \/ RunAlg
    \/ Finish

Spec == Init /\ [][Next]_vars

(***************************************************************************)
(* Vocabulary of the properties.                                           *)
(***************************************************************************)
od == config.outlier_detection

Last(s) == s[Len(s)]

\* The names at positions 1..k of the configuration's outlier_detection.
ConfiguredNames(k) == [i \in 1..k |-> od[i].name]

\* The names of the algorithms whose run was called, in call order.
InvokedNames == [i \in DOMAIN invocations |-> AlgName(invocations[i].alg)]

Happened(op) == \E i \in DOMAIN trace : trace[i].op = op

\* The run ended on a failed algorithm lookup.
AlgNotFound ==
    /\ pc = "raised"
    /\ error = "NotFoundError"
    /\ Last(trace).op = "get_alg_by_name"

\* The run ended on a failed loader lookup.
LoaderNotFound ==
    /\ pc = "raised"
    /\ error = "NotFoundError"
    /\ Last(trace).op = "get_data_loader_by_name"

NoDataLoaded ==
    /\ ~Happened("load")
    /\ dtf_dict = NoDict
    /\ dts_dict = NoDict

CompletedNormally == pc = "exited" /\ exitCode = <<0>>

\* C1: a missing config_file ends the process with status 1 straight from
\* the existence check: no directory is created, no configuration parsed,
\* nothing registered, no loader resolved, nothing loaded, nothing run,
\* whatever out_dir, log_file and seed are.
C1_MissingConfigExitsOne ==
    (~args.exists /\ pc # "start") =>
        /\ pc = "exited"
        /\ exitCode = <<1>>
        /\ error = None
        /\ fs = fs0
        /\ created = {}
        /\ trace = <<>>
        /\ config = NoConfig
        /\ registry = EmptyRegistry
        /\ data_loader = None
        /\ NoDataLoaded
        /\ invocations = <<>>

C1_Witness ==
    /\ ~args.exists
    /\ pc = "exited"
    /\ args.out_dir # None
    /\ args.out_dir \notin fs0
    /\ args.log_file # None
    /\ args.seed # DefaultSeed

\* C2 as stated: when the run aborts on an unregistered algorithm name, at
\* whatever position of the mapping, no algorithm run has been invoked.
C2_NoRunBeforeAlgNotFound ==
    AlgNotFound => invocations = <<>>

\* C2 as amended: when the loop reaches an unregistered name at position k,
\* the run aborts there with a not-found error; the algorithms invoked by
\* then are exactly those at positions 1..k-1, so none has been invoked
\* only when the unregistered name is first in the mapping.
C2_AbortAtUnregisteredPosition ==
    \A k \in 1..algIdx :
        od[k].name \notin DOMAIN registry =>
            /\ k = algIdx
            /\ AlgNotFound
            /\ exitCode = <<1>>
            /\ Last(trace).arg = od[k].name
            /\ InvokedNames = ConfiguredNames(k - 1)
            /\ (invocations = <<>>) <=> (k = 1)

C2_Witness ==
    /\ AlgNotFound
    /\ algIdx = 2
    /\ Len(invocations) = 1

\* The calls of the algorithm loop in the trace.
IsLoopEvent(e) == e.op \in {"get_alg_by_name", "run"}

LoopTrace == SelectSeq(trace, IsLoopEvent)

\* C3: algorithms run one at a time in the order of the configuration's
\* mapping, whatever the registration order: the k-th lookup is of the k-th
\* configured name and is followed by one run of the algorithm it returned
\* before the next lookup; on normal completion every configured algorithm
\* has been invoked exactly once and nothing else has.
C3_ConfigurationOrder ==
    /\ Len(invocations) <= Len(od)
    /\ InvokedNames = ConfiguredNames(Len(invocations))
    /\ \A j \in DOMAIN LoopTrace :
          IF j % 2 = 1
          THEN LoopTrace[j] = Event("get_alg_by_name", od[(j + 1) \div 2].name)
          ELSE /\ LoopTrace[j].op = "run"
               /\ LoopTrace[j].arg = registry[od[j \div 2].name]
               /\ LoopTrace[j].arg = invocations[j \div 2].alg
    /\ Len(LoopTrace) = algIdx + Len(invocations)
    /\ algIdx - Len(invocations) = (IF pc = "run" \/ AlgNotFound THEN 1 ELSE 0)
    /\ CompletedNormally =>
          /\ Len(invocations) = Len(od)
          /\ \A i \in DOMAIN od :
                Cardinality({k \in DOMAIN invocations :
                                InvokedNames[k] = od[i].name}) = 1
          /\ \A k \in DOMAIN invocations :
                \E i \in DOMAIN od : od[i].name = InvokedNames[k]

\* Completed with "random" (registered sixth) run before "demud" (first).
C3_Witness ==
    /\ CompletedNormally
    /\ InvokedNames = <<"random", "demud">>

\* C4 as stated: a run that ends on an unresolvable loader name or an
\* unresolvable algorithm name has loaded neither dataset.
C4_NotFoundBeforeAnyLoad ==
    (LoaderNotFound \/ AlgNotFound) => NoDataLoaded

\* C4 as amended: an unresolvable loader name aborts the run at the loader
\* lookup, before any data is loaded; an unresolvable algorithm name aborts
\* it inside the algorithm loop, after both datasets have been loaded.
C4_LoaderBeforeLoadAlgAfter ==
    /\ (/\ Happened("get_data_loader_by_name")
        /\ config.data_loader.name \notin LoaderNames) =>
            /\ LoaderNotFound
            /\ exitCode = <<1>>
            /\ data_loader = None
            /\ NoDataLoaded
    /\ AlgNotFound =>
            /\ dtf_dict = load(config.data_to_fit, config.data_loader.params)
            /\ dts_dict = load(config.data_to_score, config.data_loader.params)
            /\ Cardinality({i \in DOMAIN trace : trace[i].op = "load"}) = 2

C4_Witness ==
    /\ AlgNotFound
    /\ invocations = <<>>
    /\ dts_dict # NoDict

\* The directory the run writes under.
ActiveOutDir == IF args.out_dir # None THEN args.out_dir ELSE ConfigOutDir

\* The output-directory statements of start have completed.
OutDirResolved == pc = "register" \/ Happened("register_od_alg")

\* C5: one output directory per run, the out_dir argument when it is not
\* None and the configuration file's otherwise; it is created exactly when
\* it did not exist, before the data loader is resolved, no other directory
\* is created, and every algorithm invocation receives it.
C5_OneOutDir ==
    /\ created \subseteq {ActiveOutDir}
    /\ fs = fs0 \cup created
    /\ \A i \in DOMAIN trace :
          trace[i].op = "mkdir" =>
              /\ trace[i].arg = ActiveOutDir
              /\ ActiveOutDir \notin fs0
              /\ \A j \in DOMAIN trace :
                    trace[j].op = "get_data_loader_by_name" => i < j
    /\ OutDirResolved =>
          /\ config.out_dir = ActiveOutDir
          /\ ActiveOutDir \in fs
          /\ (ActiveOutDir \in created) <=> (ActiveOutDir \notin fs0)
          /\ Happened("mkdir") <=> (ActiveOutDir \notin fs0)
    /\ \A i \in DOMAIN invocations : invocations[i].out_dir = ActiveOutDir

C5_Witness ==
    /\ CompletedNormally
    /\ args.out_dir # None
    /\ created = {args.out_dir}
    /\ ConfigOutDir \notin fs
    /\ Len(invocations) = 2

\* C6: when the run of the k-th configured algorithm raises, the error
\* leaves start and ends the process; the algorithms invoked are exactly
\* those at positions 1..k, each once, nothing after position k has been
\* looked up, and nothing further happens.
C6_FailFast ==
    failedAt # 0 =>
        /\ pc = "raised"
        /\ error = "AlgorithmRuntimeError"
        /\ exitCode = <<1>>
        /\ algIdx = failedAt
        /\ Len(invocations) = failedAt
        /\ InvokedNames = ConfiguredNames(failedAt)
        /\ Cardinality({i \in DOMAIN trace : trace[i].op = "get_alg_by_name"})
              = failedAt
        /\ Cardinality({i \in DOMAIN trace : trace[i].op = "run"}) = failedAt
        /\ Last(trace) = Event("run", invocations[failedAt].alg)
        /\ ~ENABLED Next

C6_Witness ==
    /\ failedAt = 1
    /\ Len(od) = 2
    /\ od[2].name \in DOMAIN registry

\* The classes registered so far by register_od_algs.
Registered == {register_od_algs[i] : i \in 1..regIdx}

IsPhaseEvent(e) ==
    e.op \in {"get_data_loader_by_name", "load", "extract_feature",
              "z_score_normalize", "get_alg_by_name", "run"}

PhaseName(e) == IF e.op = "run" THEN Event("run", AlgName(e.arg)) ELSE e

PhaseTrace ==
    LET t == SelectSeq(trace, IsPhaseEvent)
    IN  [i \in DOMAIN t |-> PhaseName(t[i])]

\* The phases of a complete run of the configuration, in order.
PhaseOrder ==
    <<Event("get_data_loader_by_name", config.data_loader.name),
      Event("load", config.data_to_fit),
      Event("load", config.data_to_score),
      Event("extract_feature", config.data_to_fit),
      Event("extract_feature", config.data_to_score)>>
    \o (IF config.zscore_normalization
        THEN <<Event("z_score_normalize", "features")>> ELSE <<>>)
    \o [j \in 1..(2 * Len(od)) |->
           IF j % 2 = 1
           THEN Event("get_alg_by_name", od[(j + 1) \div 2].name)
           ELSE Event("run", od[j \div 2].name)]

IsPrefix(s, t) == Len(s) <= Len(t) /\ \A i \in DOMAIN s : s[i] = t[i]

\* C8: the phases are entered once each and in order (loader lookup, fit
\* load, score load, fit extraction, score extraction with the same recipe,
\* normalization when enabled, then lookup and run per algorithm), each
\* after the previous one has returned, and once a phase has failed
\* nothing further starts.
C8_PhasesSequential ==
    /\ IsPrefix(PhaseTrace, PhaseOrder)
    /\ Happened("extract_feature") =>
          /\ dtf_dict = load(config.data_to_fit, config.data_loader.params)
          /\ dts_dict = load(config.data_to_score, config.data_loader.params)
    /\ Happened("z_score_normalize") =>
          /\ dtf_features.recipe = config.features
          /\ dts_features.recipe = config.features
    /\ Happened("get_alg_by_name") =>
          /\ dtf_features.data = config.data_to_fit
          /\ dts_features.data = config.data_to_score
          /\ dtf_features.recipe = dts_features.recipe
          /\ dtf_features.normalized = config.zscore_normalization
          /\ dts_features.normalized = config.zscore_normalization
    /\ error # None => (pc = "raised" /\ ~ENABLED Next)
    /\ pc = "loop" =>
          Len(PhaseTrace) + 2 * (Len(od) - algIdx) = Len(PhaseOrder)
    /\ CompletedNormally => PhaseTrace = PhaseOrder

C8_Witness ==
    /\ CompletedNormally
    /\ config.zscore_normalization
    /\ Len(invocations) = 2
    /\ PhaseTrace = PhaseOrder

\* C9: every register_od_alg call of the run precedes the first
\* get_alg_by_name lookup, all seven have returned by then, and no step
\* from the first lookup on changes the registry.
C9_RegistryFrozen ==
    /\ [](\A i, j \in DOMAIN trace :
             (trace[i].op = "register_od_alg" /\ trace[j].op = "get_alg_by_name")
                 => i < j)
    /\ [](Happened("get_alg_by_name") =>
             (regIdx = Len(register_od_algs) /\ Cardinality(DOMAIN registry) = regIdx))
    /\ [][(\E i \in DOMAIN trace' : trace'[i].op = "get_alg_by_name")
             => registry' = registry]_vars

C9_Witness ==
    /\ CompletedNormally
    /\ Cardinality({i \in DOMAIN trace : trace[i].op = "get_alg_by_name"}) = 2
    /\ Cardinality({i \in DOMAIN trace : trace[i].op = "register_od_alg"}) = 7

\* The feature matrices the run hands to the algorithms.
SharedFit ==
    LET f == extract_feature(load(config.data_to_fit, config.data_loader.params),
                             config.features)
        s == extract_feature(load(config.data_to_score, config.data_loader.params),
                             config.features)
    IN  IF config.zscore_normalization THEN z_score_normalize(f, s)[1] ELSE f

SharedScore ==
    LET f == extract_feature(load(config.data_to_fit, config.data_loader.params),
                             config.features)
        s == extract_feature(load(config.data_to_score, config.data_loader.params),
                             config.features)
    IN  IF config.zscore_normalization THEN z_score_normalize(f, s)[2] ELSE s

\* C10: every invocation receives the same fit and score matrices (the
\* normalized pair exactly when normalization is enabled), the ids of the
\* score dataset, the same out_dir, results configuration, top_n, logger
\* and seed; the driver's copies do not change during the loop; only the
\* algorithm and its own parameters vary.
C10_SharedInputs ==
    /\ \A i \in DOMAIN invocations :
          /\ invocations[i].fit = SharedFit
          /\ invocations[i].score = SharedScore
          /\ invocations[i].fit.normalized = config.zscore_normalization
          /\ invocations[i].ids = [ids_of |-> config.data_to_score]
          /\ invocations[i].ids # dtf_dict.id
          /\ invocations[i].out_dir = config.out_dir
          /\ invocations[i].results = "results_cfg"
          /\ invocations[i].top_n = "top_n_cfg"
          /\ invocations[i].logger =
                (IF args.log_file # None THEN "LogUtil" ELSE None)
          /\ invocations[i].seed = args.seed
          /\ invocations[i].params = od[i].params
          /\ \A j \in DOMAIN invocations :
                [invocations[i] EXCEPT !.alg = None, !.params = None] =
                [invocations[j] EXCEPT !.alg = None, !.params = None]
    /\ (pc \in {"loop", "run"} \/ invocations # <<>>) =>
          /\ dtf_features = SharedFit
          /\ dts_features = SharedScore
          /\ dts_dict.id = [ids_of |-> config.data_to_score]

C10_Witness ==
    /\ CompletedNormally
    /\ Len(invocations) = 2
    /\ invocations[1].params # invocations[2].params
    /\ invocations[1].fit.normalized
    /\ args.seed # DefaultSeed

====
